---------------------------- MODULE Spec2Model ----------------------------
(***************************************************************************)
(* Model of src/ecc/SignCurve25519.go: sign and verify, the signature      *)
(* scheme that reuses Curve25519 keys for Ed25519-style signatures.        *)
(*                                                                         *)
(* The arithmetic of filippo.io/edwards25519 and the digest of             *)
(* crypto/sha512 are modelled at a reduced width.  A 32-byte array is a    *)
(* KeyBits-bit little-endian integer, a 64-byte array a 2*KeyBits-bit one. *)
(* The curve is a twisted Edwards curve -x^2 + y^2 = 1 + d x^2 y^2 over    *)
(* the prime field of 2^5 - 3 elements; like edwards25519 its group has    *)
(* order 8 * L with L prime, the base point generates the subgroup of      *)
(* order L, and the field prime and L leave the top bit of an encoded      *)
(* coordinate and of a canonical scalar free.                              *)
(***************************************************************************)
EXTENDS Integers, Sequences, FiniteSets

(***************************************************************************)
(* Bounds of the model.                                                    *)
(***************************************************************************)
\* the messages are the first MaxMsg + 1 bit strings, shortest first
MaxMsg == 2
\* the caller-supplied randomness ranges over 0..MaxRandom
MaxRandom == 1

(***************************************************************************)
(* Widths and curve parameters.                                            *)
(***************************************************************************)
\* width of a [32]byte array
KeyBits == 6
\* the field prime (2^255 - 19 in edwards25519)
FieldP == 2^(KeyBits - 1) - 3
\* the curve constant d, a non-square
EdD == FieldP - 2
\* the prime order of the base point
L == 5
\* the base point, of order L, with even ("non-negative") x
B == <<2, 23>>
\* the neutral element
Identity == <<0, 1>>

\* 0x80 of the last byte, and 0x7F
SignMask == 2^(KeyBits - 1)
LowMask == 2^(KeyBits - 1) - 1

Bytes32 == 0 .. (2^KeyBits - 1)
\* the n-th bit string: the binary digits of n, without the leading one
RECURSIVE BitString(_)
BitString(n) == IF n = 1 THEN <<>> ELSE Append(BitString(n \div 2), n % 2)
Messages == {BitString(n + 1) : n \in 0 .. MaxMsg}
Randoms == 0 .. MaxRandom

\* a failed decoding (the err != nil results)
NoPoint == <<>>
NoScalar == -1

(***************************************************************************)
(* Bit operations on array-wide integers.                                  *)
(***************************************************************************)
RECURSIVE BitAnd(_, _)
BitAnd(a, b) ==
  IF a = 0 \/ b = 0 THEN 0
  ELSE (a % 2) * (b % 2) + 2 * BitAnd(a \div 2, b \div 2)

RECURSIVE BitOr(_, _)
BitOr(a, b) ==
  IF a = 0 THEN b
  ELSE IF b = 0 THEN a
  ELSE (IF a % 2 = 1 \/ b % 2 = 1 THEN 1 ELSE 0) + 2 * BitOr(a \div 2, b \div 2)

(***************************************************************************)
(* Field and point arithmetic (edwards25519.Point, edwards25519.Scalar).   *)
(***************************************************************************)
\* the inverses of the non-zero field elements
FInvTable == [z \in 1 .. (FieldP - 1) |-> CHOOSE w \in 1 .. (FieldP - 1) : (w * z) % FieldP = 1]

\* Element.Invert
FInv(z) == FInvTable[z]

FNeg(z) == (FieldP - z) % FieldP

\* Point.Add: the complete addition law of the curve
Add(p1, p2) ==
  LET x1 == p1[1]
      y1 == p1[2]
      x2 == p2[1]
      y2 == p2[2]
      t == (EdD * x1 * x2 * y1 * y2) % FieldP
  IN << ((x1 * y2 + y1 * x2) * FInv((1 + t) % FieldP)) % FieldP,
        ((y1 * y2 + x1 * x2) * FInv((1 + FieldP - t) % FieldP)) % FieldP >>

RECURSIVE ScalarMult(_, _)
ScalarMult(k, p) == IF k = 0 THEN Identity ELSE Add(p, ScalarMult(k - 1, p))

\* Point.ScalarBaseMult
ScalarBaseMult(k) == ScalarMult(k, B)

\* Point.VarTimeDoubleScalarBaseMult(a, A, b) = a * A + b * B
VarTimeDoubleScalarBaseMult(a, A, b) == Add(ScalarMult(a, A), ScalarBaseMult(b))

\* Point.Bytes: y, with the low bit of x in the top bit
PointBytes(p) == p[2] + SignMask * (p[1] % 2)

\* Point.Equal
Equal(p1, p2) == IF p1 = p2 THEN 1 ELSE 0

\* Point.SetBytes: the top bit is the sign of x, the rest is y, taken modulo
\* the field prime; x is recovered from the curve equation; an encoding with
\* no such x is an error; x = 0 with the sign bit set is accepted
Decompress(b) ==
  LET y == (b % SignMask) % FieldP
      u == (y * y + FieldP - 1) % FieldP
      v == (EdD * y * y + 1) % FieldP
      xx == (u * FInv(v)) % FieldP
      roots == {x \in 0 .. (FieldP - 1) : (x * x) % FieldP = xx}
      xabs == CHOOSE x \in roots : x % 2 = 0
  IN IF roots = {} THEN NoPoint
     ELSE IF b \div SignMask = 1 THEN << FNeg(xabs), y >>
     ELSE << xabs, y >>

\* the decoding of every 32-byte value
SetBytesTable == [b \in Bytes32 |-> Decompress(b)]

\* a decoding whose error is dropped, leaving the neutral element
SetBytes_lenient(b) == IF SetBytesTable[b] = NoPoint THEN Identity ELSE SetBytesTable[b]

\* Point.SetBytes
SetBytes(b) == SetBytesTable[b]

\* Scalar.SetBytesWithClamping: clear the low three bits and the top bit,
\* set the second-highest bit, reduce modulo L
SetBytesWithClamping(x) ==
  LET mid == (x % 2^(KeyBits - 2)) - (x % 8)
  IN (2^(KeyBits - 2) + mid) % L

\* Scalar.SetUniformBytes: a 64-byte value reduced modulo L
SetUniformBytes(x) == x % L

\* a decoding that reduces modulo L instead of rejecting
SetCanonicalBytes_reducing(x) == x % L

\* a decoding that clears the top bit before the range check
SetCanonicalBytes_masked(x) == IF x % SignMask < L THEN x % SignMask ELSE NoScalar

\* Scalar.SetCanonicalBytes: an error unless the 32 bytes are below L
SetCanonicalBytes(x) == IF x < L THEN x ELSE NoScalar

\* x + y * z in place of x * y + z
MultiplyAdd_swapped(x, y, z) == (x + y * z) % L

\* Scalar.MultiplyAdd(x, y, z) = x * y + z mod L
MultiplyAdd(x, y, z) == (x * y + z) % L

\* Scalar.Bytes
ScalarBytes(s) == s


(***************************************************************************)
(* State.                                                                  *)
(***************************************************************************)
VARIABLES
  pc,          \* "idle", "signed", "resigned", "verified", "tampered"
  privateKey,  \* the caller's private key buffer (sign reads it by pointer)
  message,     \* the caller's message buffer
  random,      \* the caller's randomness
  hash,        \* the buffer of the hash object allocated last
  sg,          \* what the last call of sign computed and returned
  signature2,  \* the signature a second call of sign returned
  vIn,         \* the arguments of the last call of verify
  vOut,        \* what that call computed and returned
  tKind,       \* which argument a follow-up call of verify changed
  tIn,         \* the arguments of the follow-up call
  tOut         \* what the follow-up call computed and returned

vars == << pc, privateKey, message, random, hash, sg, signature2,
           vIn, vOut, tKind, tIn, tOut >>

(***************************************************************************)
(* crypto/sha512: a hash object is the sequence of what was written to it; *)
(* its digest is a 64-byte value.                                          *)
(***************************************************************************)
\* sha512.New(), with a shared, never emptied hash object in its place
sha512New_shared == hash

\* sha512.New()
sha512New == <<>>

\* hash.Write
Write(h, data) == h \o data

\* hash.Reset
Reset(h) == <<>>

RECURSIVE Absorb(_, _)
Absorb(h, acc) ==
  IF h = <<>> THEN acc
  ELSE Absorb(Tail(h),
              (acc * acc + 37 * acc + (Head(h) + 1) * (Head(h) + 7) + 11) % 2^(2 * KeyBits))

\* hash.Sum
Sum(h) == Absorb(h, Len(h) + 3)

(***************************************************************************)
(* sign                                                                    *)
(***************************************************************************)
\* 0xFE, 0xFF, ..., 0xFF read as a little-endian integer
diversifier == 2^KeyBits - 2

Sign(privKey, msg, rnd) ==
  LET privScalar == SetBytesWithClamping(privKey)
      publicKey == PointBytes(ScalarBaseMult(privScalar))
      h1 == Write(Write(Write(Write(sha512New, <<diversifier>>), <<privKey>>), msg), <<rnd>>)
      r == Sum(h1)
      rScalar == SetUniformBytes(r)
      R == ScalarBaseMult(rScalar)
      encodedR == PointBytes(R)
      h2 == Write(Write(Write(Reset(h1), <<encodedR>>), <<publicKey>>), msg)
      hramDigest == Sum(h2)
      hramScalar == SetUniformBytes(hramDigest)
      s == MultiplyAdd(hramScalar, privScalar, rScalar)
  IN [ privScalar |-> privScalar,
       publicKey  |-> publicKey,
       rScalar    |-> rScalar,
       encodedR   |-> encodedR,
       hramScalar |-> hramScalar,
       s          |-> s,
       hash       |-> h2,
       signature  |-> [ R |-> encodedR,
                        S |-> BitOr(ScalarBytes(s), BitAnd(publicKey, SignMask)) ] ]

(***************************************************************************)
(* verify                                                                  *)
(***************************************************************************)
\* publicKey[31] &= 0x7F left out
ClearSignBit_skipped(pubKey) == pubKey

\* publicKey[31] &= 0x7F, on verify's own copy of the array
ClearSignBit(pubKey) == BitAnd(pubKey, LowMask)

Returned(result, stage, pk, A, R, s, h, hramScalar, check) ==
  [ result |-> result, stage |-> stage, publicKey |-> pk, A |-> A, R |-> R, s |-> s,
    hash |-> h, hramScalar |-> hramScalar, check |-> check ]

Verify(pubKey, msg, sig) ==
  LET publicKey == ClearSignBit(pubKey)
      A == SetBytes(publicKey)
      R == SetBytes(sig.R)
      s == SetCanonicalBytes(sig.S)
      h == Write(Write(Write(sha512New, <<sig.R>>), <<publicKey>>), msg)
      hramDigest == Sum(h)
      hramScalar == SetUniformBytes(hramDigest)
      check == VarTimeDoubleScalarBaseMult(hramScalar, A, s)
  IN IF A = NoPoint
       THEN Returned(FALSE, "A", publicKey, A, NoPoint, NoScalar, hash, NoScalar, NoPoint)
     ELSE IF R = NoPoint
       THEN Returned(FALSE, "R", publicKey, A, R, NoScalar, hash, NoScalar, NoPoint)
     ELSE IF s = NoScalar
       THEN Returned(FALSE, "S", publicKey, A, R, s, hash, NoScalar, NoPoint)
     ELSE Returned(Equal(check, R) = 1, "check", publicKey, A, R, s, h, hramScalar, check)

(***************************************************************************)
(* The callers.                                                            *)
(***************************************************************************)
NoSig == [R |-> 0, S |-> 0]
NoArgs == [publicKey |-> 0, message |-> <<>>, signature |-> NoSig]
NoSign ==
  [ privScalar |-> NoScalar, publicKey |-> 0, rScalar |-> NoScalar, encodedR |-> 0,
    hramScalar |-> NoScalar, s |-> NoScalar, hash |-> <<>>, signature |-> NoSig ]
NoVerify ==
  Returned(FALSE, "none", 0, NoPoint, NoPoint, NoScalar, <<>>, NoScalar, NoPoint)

Args(pk, msg, sig) == [publicKey |-> pk, message |-> msg, signature |-> sig]

\* the caller holds a private key, a message and randomness
Init ==
  /\ pc = "idle"
  /\ privateKey \in Bytes32
  /\ message \in Messages
  /\ random \in Randoms
  /\ hash = <<>>
  /\ sg = NoSign
  /\ signature2 = NoSig
  /\ vIn = NoArgs
  /\ vOut = NoVerify
  /\ tKind = "none"
  /\ tIn = NoArgs
  /\ tOut = NoVerify

\* signature := sign(&privateKey, message, random)
SignCall ==
  /\ pc = "idle"
  /\ sg' = Sign(privateKey, message, random)
  /\ hash' = sg'.hash
  /\ pc' = "signed"
  /\ UNCHANGED << privateKey, message, random, signature2, vIn, vOut, tKind, tIn, tOut >>

\* a second sign(&privateKey, message, random) over the same buffers
SignAgain ==
  /\ pc \in {"signed", "verified"}
  /\ LET again == Sign(privateKey, message, random)
     IN /\ signature2' = again.signature
        /\ hash' = again.hash
  /\ pc' = "resigned"
  /\ UNCHANGED << privateKey, message, random, sg, vIn, vOut, tKind, tIn, tOut >>

\* verify(pk, msg, sig), as a step of the caller
VerifyCall(pk, msg, sig) ==
  /\ vIn' = Args(pk, msg, sig)
  /\ vOut' = Verify(pk, msg, sig)
  /\ hash' = vOut'.hash
  /\ pc' = "verified"
  /\ UNCHANGED << privateKey, message, random, sg, signature2, tKind, tIn, tOut >>

\* verify(publicKeyOf(privateKey), message, signature) on what sign returned
RoundTrip ==
  /\ pc = "signed"
  /\ VerifyCall(sg.publicKey, message, sg.signature)

\* verify on the signer's R, public key and message with another S field
VerifyOtherS ==
  /\ pc = "signed"
  /\ \E sField \in Bytes32 \ {sg.signature.S} :
       VerifyCall(sg.publicKey, message, [R |-> sg.signature.R, S |-> sField])

Next == SignCall \/ SignAgain \/ RoundTrip \/ VerifyOtherS

Spec == Init /\ [][Next]_vars

(***************************************************************************)
(* verify on arbitrary arguments, and a follow-up call with one bit of an  *)
(* argument changed.                                                       *)
(***************************************************************************)
FlipBit(x, i) == IF (x \div 2^i) % 2 = 1 THEN x - 2^i ELSE x + 2^i

BitIndex == 0 .. (KeyBits - 1)

\* the caller holds a public key and a message
InitV ==
  /\ pc = "idle"
  /\ privateKey = 0
  /\ message = <<>>
  /\ random = 0
  /\ hash = <<>>
  /\ sg = NoSign
  /\ signature2 = NoSig
  /\ vIn \in {Args(pk, msg, NoSig) : pk \in Bytes32, msg \in Messages}
  /\ vOut = NoVerify
  /\ tKind = "none"
  /\ tIn = NoArgs
  /\ tOut = NoVerify

\* verify(pk, msg, sig) on the caller's key and message, for any 64-byte
\* signature
VerifyAny ==
  /\ pc = "idle"
  /\ \E r \in Bytes32, sField \in Bytes32 :
       VerifyCall(vIn.publicKey, vIn.message, [R |-> r, S |-> sField])

\* the follow-up call verify(pk, msg, sig)
FollowUp(kind, pk, msg, sig) ==
  /\ tKind' = kind
  /\ tIn' = Args(pk, msg, sig)
  /\ tOut' = Verify(pk, msg, sig)
  /\ hash' = tOut'.hash
  /\ pc' = "tampered"
  /\ UNCHANGED << privateKey, message, random, sg, signature2, vIn, vOut >>

\* an accepted signature, verified again with one bit of the message flipped
FlipMessage ==
  /\ pc = "verified"
  /\ vOut.result
  /\ \E i \in 1 .. Len(vIn.message) :
       FollowUp("message", vIn.publicKey,
                [vIn.message EXCEPT ![i] = 1 - vIn.message[i]], vIn.signature)

\* ... with one bit of signature[0..31] flipped
FlipR ==
  /\ pc = "verified"
  /\ vOut.result
  /\ \E i \in BitIndex :
       FollowUp("R", vIn.publicKey, vIn.message,
                [vIn.signature EXCEPT !.R = FlipBit(vIn.signature.R, i)])

\* ... with one bit of signature[32..63] flipped
FlipS ==
  /\ pc = "verified"
  /\ vOut.result
  /\ \E i \in BitIndex :
       FollowUp("S", vIn.publicKey, vIn.message,
                [vIn.signature EXCEPT !.S = FlipBit(vIn.signature.S, i)])

\* any call, repeated with bit 7 of byte 31 of the public key flipped
FlipKeySign ==
  /\ pc = "verified"
  /\ FollowUp("key", FlipBit(vIn.publicKey, KeyBits - 1), vIn.message, vIn.signature)

NextV == VerifyAny \/ FlipMessage \/ FlipR \/ FlipS \/ FlipKeySign

SpecV == InitV /\ [][NextV]_vars

(***************************************************************************)
(* The properties.                                                         *)
(***************************************************************************)
\* the curve equation -x^2 + y^2 = 1 + d x^2 y^2
OnCurve(x, y) ==
  (y * y + (FieldP - 1) * x * x) % FieldP = (1 + EdD * x * x * y * y) % FieldP

\* the inverse -p of a point
Negate(p) == << FNeg(p[1]), p[2] >>

\* b encodes the y coordinate of some point of the curve
Decodable(b) == \E x \in 0 .. (FieldP - 1) : OnCurve(x, (b % SignMask) % FieldP)

\* p generates the subgroup of order L
HasOrderL(p) == p # NoPoint /\ p # Identity /\ ScalarMult(L, p) = Identity

\* the call of verify was the round trip of what sign returned
IsRoundTrip == pc = "verified" /\ vIn = Args(sg.publicKey, message, sg.signature)

\* C1: verify(publicKeyOf(p), m, sign(p, m, rnd)) returns true for every
\* private key p, message m and randomness rnd.
C1_RoundTrip == IsRoundTrip => vOut.result

\* C2: a signature whose last 32 bytes, read as a little-endian integer, are
\* at least L is never accepted by verify.
C2_NonCanonicalRejected ==
  /\ (pc \in {"verified", "tampered"} /\ vIn.signature.S >= L) => ~vOut.result
  /\ (pc = "tampered" /\ tIn.signature.S >= L) => ~tOut.result

C2_Witness ==
  /\ pc = "verified"
  /\ vIn.signature.S >= L
  /\ vIn.signature.S % L = 2
  /\ vOut.stage = "S"
  /\ HasOrderL(vOut.A)
  /\ vOut.R = Add(ScalarBaseMult(2),
                  ScalarMult(SetUniformBytes(Sum(<<vIn.signature.R, vOut.publicKey>>
                                                 \o vIn.message)), vOut.A))

\* C3: when the public key, R and S all decode, verify returns true if and
\* only if S*B - h*A equals R.
C3_SchnorrCheck ==
  (pc = "verified" /\ vOut.stage = "check") =>
    (vOut.result <=>
       Add(ScalarBaseMult(vOut.s), Negate(ScalarMult(vOut.hramScalar, vOut.A))) = vOut.R)

\* C4: for the signer's encoded R, public key bytes and message, the
\* challenge h that verify computes equals the h that sign computed, verify
\* hashing the public key bytes as the caller passed them.
C4_SameChallenge ==
  (pc = "verified" /\ vOut.stage = "check") =>
    /\ vOut.hramScalar = sg.hramScalar
    /\ vOut.hash = <<vIn.signature.R, vIn.publicKey>> \o vIn.message

\* C5: a signature whose S field is a canonical scalar with bit 7 of byte 63
\* set to the public key's sign bit is decoded to that scalar and is not
\* rejected as non-canonical.
C5_SignBitMasked ==
  ( /\ pc = "verified"
    /\ vOut.A # NoPoint
    /\ vOut.R # NoPoint
    /\ vIn.signature.S % SignMask < L
    /\ vIn.signature.S \div SignMask = vIn.publicKey \div SignMask ) =>
    /\ vOut.stage = "check"
    /\ vOut.s = vIn.signature.S % SignMask

\* C6: sign returns encode(r*B) in bytes 0..31, the canonical encoding of
\* (r + h*clamp(p)) mod L in bytes 32..63 with bit 7 of byte 63 cleared, and
\* the sign bit of the Edwards public key of p in bit 7 of byte 63, h being
\* the challenge over encode(r*B), the public key and the message.
C6_SignatureLayout ==
  pc # "idle" =>
    LET a == (2^(KeyBits - 2) + 8 * ((privateKey \div 8) % 2^(KeyBits - 5))) % L
        pk == PointBytes(ScalarMult(a, B))
        h ==  Sum(<<sg.signature.R, pk>> \o message) % L
    IN /\ sg.signature.R = PointBytes(ScalarMult(sg.rScalar, B))
       /\ sg.signature.S % SignMask = (sg.rScalar + h * a) % L
       /\ sg.signature.S \div SignMask = pk \div SignMask

C6_Witness ==
  /\ pc = "signed"
  /\ sg.signature.S >= SignMask
  /\ sg.signature.S % SignMask > 0
  /\ sg.hramScalar > 1
  /\ sg.rScalar > 0

\* C7: verify returns a boolean, and returns false whenever the public key
\* with its sign bit cleared, or signature[0..31], encodes no curve point, or
\* signature[32..63] is not below L.
C7_FailsClosed ==
  pc = "verified" =>
    /\ vOut.result \in BOOLEAN
    /\ ( \/ ~Decodable(vIn.publicKey)
         \/ ~Decodable(vIn.signature.R)
         \/ vIn.signature.S >= L ) => vOut.result = FALSE

C7_Witness ==
  /\ pc = "verified"
  /\ ~Decodable(vIn.publicKey)
  /\ Decodable(vIn.signature.R)
  /\ vIn.signature.S < L
  /\ vIn.signature.S > 0
  /\ SetBytes(vIn.signature.R) = ScalarBaseMult(vIn.signature.S)
  /\ vOut.result = FALSE

C9_TamperedMessageRejected ==
  (pc = "tampered" /\ tKind = "message" /\ tOut.hramScalar # vOut.hramScalar)
    => ~tOut.result

\* C9, amended: flipping one bit of signature[32..63] of an accepted signature
\* always makes verify return false; flipping one bit of the message makes
\* verify return false whenever the public key decodes to a point of order L
\* and the flip changes the challenge.
C9_TamperRejected ==
  pc = "tampered" =>
    /\ tKind = "S" => ~tOut.result
    /\ (tKind = "message" /\ HasOrderL(vOut.A) /\ tOut.hramScalar # vOut.hramScalar)
         => ~tOut.result

C9_Witness ==
  /\ pc = "tampered"
  /\ tKind = "message"
  /\ HasOrderL(vOut.A)
  /\ tOut.stage = "check"
  /\ tOut.hramScalar # vOut.hramScalar
  /\ ~tOut.result

\* C10: verify(pk, m, sig) = verify(pk', m, sig) for pk' equal to pk with
\* bit 7 of byte 31 flipped.
C10_KeySignIgnored ==
  (pc = "tampered" /\ tKind = "key") => tOut.result = vOut.result

C10_Witness ==
  /\ pc = "tampered"
  /\ tKind = "key"
  /\ tIn.publicKey >= SignMask
  /\ vOut.result
  /\ tOut.result
  /\ HasOrderL(vOut.A)

=============================================================================
